---- MODULE Spec2Model ----
(***************************************************************************)
(* Model of the Piper text-to-speech pipeline of app.py: request parsing   *)
(* and routing (tts_endpoint), the Piper handler (handle_piper_request),   *)
(* the splitting loop, the per-chunk synthesis loop and the recombination  *)
(* of generate_audio_by_splitting_piper, and the single synthesis of       *)
(* generate_audio_piper, together with the cache directory they write.     *)
(* Spec is one request from its arrival to its response.  SpecSweep is     *)
(* clear_audio_cache running next to the file operations of other          *)
(* requests while the clock advances.                                      *)
(*                                                                         *)
(* A text is a sequence of tokens.  A token is a tuple of characters:      *)
(* either a run of whitespace (first character " ") or a word (a maximal   *)
(* run of non-whitespace characters).  str.strip, str.split and str.join   *)
(* are modelled on token sequences.                                        *)
(***************************************************************************)
EXTENDS Integers, Sequences, FiniteSets, TLC

VARIABLES
    pc,                       \* position of the request worker
    PIPER_AVAILABLE,          \* app.py:24/36, fixed at import time
    text,                     \* tts_endpoint: data['text'].strip()
    format_param,             \* tts_endpoint: data['format'].lower()
    engine,                   \* tts_endpoint: data['engine'].lower()
    voice_key,                \* handle_piper_request
    sentence_silence,         \* handle_piper_request
    words,                    \* text.split()
    wi,                       \* splitting loop: number of words consumed
    current_paragraph_words,  \* splitting loop
    paragraphs,               \* splitting loop
    i,                        \* chunk loop: enumerate index (0-based)
    audio_segments,           \* chunk loop
    calls,                    \* log of the calls of voice_instance.synthesize
    cache,                    \* files of CACHE_DIR
    next_uuid,                \* uuid.uuid4(): a fresh name per call
    response,                 \* what tts_endpoint returned
    now,                      \* time.time(), in seconds
    writing,                  \* names of the files some request has open
    sweep                     \* clear_audio_cache: its locals and position

vars == <<pc, PIPER_AVAILABLE, text, format_param, engine, voice_key,
          sentence_silence, words, wi, current_paragraph_words, paragraphs, i,
          audio_segments, calls, cache, next_uuid, response, now, writing,
          sweep>>

\* what no step of a request changes
sweep_vars == <<now, writing, sweep>>

(***************************************************************************)
(* Program constants.                                                      *)
(***************************************************************************)
MAX_WORDS == 500

one_day_in_seconds == 86400

SOFT_BREAK_WORDS == 450

AVAILABLE_PIPER_VOICES == {"en_us", "en_gb", "en_us_female"}

SentenceEnd == {".", "!", "?"}

(***************************************************************************)
(* Bounds of the model.                                                    *)
(***************************************************************************)
MaxExtra == 1

MaxShort == 2

MaxPad == 1

MaxSegLen == 2

(***************************************************************************)
(* Strings as token sequences.                                             *)
(***************************************************************************)
SP == <<" ">>

Whitespace == {" ", "\t", "\n"}

IsSpace(t) == t[1] \in Whitespace

\* str.strip(): drop the leading and the trailing whitespace
Strip(s) ==
    LET idx == {k \in 1..Len(s) : ~IsSpace(s[k])}
    IN  IF idx = {} THEN <<>>
        ELSE LET first == CHOOSE k \in idx : \A j \in 1..(k - 1) : IsSpace(s[j])
                 last  == CHOOSE k \in idx : \A j \in (k + 1)..Len(s) : IsSpace(s[j])
             IN  SubSeq(s, first, last)

\* str.split(): the words, in order, whitespace runs dropped
Split(s) == SelectSeq(s, LAMBDA t : ~IsSpace(t))

\* ' '.join(ws)
Join(ws) ==
    [k \in 1..(2 * Len(ws) - 1) |-> IF k % 2 = 1 THEN ws[(k + 1) \div 2] ELSE SP]

\* word.endswith(('.', '!', '?'))
EndsWithSentenceEnd(word) == Len(word) >= 1 /\ word[Len(word)] \in SentenceEnd

(***************************************************************************)
(* The request bodies the model submits.  A text of n words is laid out    *)
(* with irregular whitespace between the words and pad whitespace runs     *)
(* around it; the words at the positions of T end a sentence.              *)
(***************************************************************************)
Letter(k) == IF k % 3 = 0 THEN "a" ELSE IF k % 3 = 1 THEN "b" ELSE "c"

Mark(k) == IF k % 3 = 0 THEN "." ELSE IF k % 3 = 1 THEN "!" ELSE "?"

WordAt(k, T) ==
    IF k \in T THEN <<Letter(k), Mark(k)>>
    ELSE IF k % 5 = 2 THEN <<Mark(k), Letter(k)>>
    ELSE <<Letter(k)>>

GapAfter(k) ==
    IF k % 3 = 1 THEN <<" ", " ">> ELSE IF k % 3 = 2 THEN <<"\n">> ELSE SP

Body(n, T) ==
    [k \in 1..(2 * n - 1) |->
        IF k % 2 = 1 THEN WordAt((k + 1) \div 2, T) ELSE GapAfter(k \div 2)]

TextOf(n, T, pad) ==
    LET ws == IF pad = 0 THEN <<>> ELSE <<[k \in 1..pad |-> " "]>>
    IN  ws \o Body(n, T) \o ws

\* texts the handler synthesizes in one call: up to MAX_WORDS words
ShortShapes ==
    {<<n, T>> : n \in (0..MaxShort) \cup {MAX_WORDS},
                T \in {{}, {1}, {SOFT_BREAK_WORDS}}}

\* texts the handler splits: just over MAX_WORDS words, with no sentence
\* end, with one before, at and after SOFT_BREAK_WORDS, and at MAX_WORDS
JustOver ==
    {<<MAX_WORDS + x, T>> : x \in 1..MaxExtra,
                T \in { {}, {SOFT_BREAK_WORDS - 1}, {SOFT_BREAK_WORDS},
                        {SOFT_BREAK_WORDS + 1, SOFT_BREAK_WORDS + 2}, {MAX_WORDS} }}

\* texts of three chunks, and texts whose last word closes a chunk
ThreeChunks ==
    { <<2 * SOFT_BREAK_WORDS + 1, {SOFT_BREAK_WORDS, 2 * SOFT_BREAK_WORDS}>>,
      <<2 * SOFT_BREAK_WORDS + 1, {SOFT_BREAK_WORDS, 2 * SOFT_BREAK_WORDS + 1}>>,
      <<2 * MAX_WORDS, {}>> }

Shapes == ShortShapes \cup JustOver \cup ThreeChunks

Texts == {TextOf(sh[1], sh[2], pad) : sh \in Shapes, pad \in 0..MaxPad}

RawFormats == {"wav", "MP3", "ogg"}

RawEngines == {"piper", "Piper", "google", "espeak"}

Voices == {"en_us", "klingon"}

Silences == {0, 2}

\* str.lower() on the strings the model submits
Lower(s) ==
    IF s = "MP3" THEN "mp3" ELSE IF s = "Piper" THEN "piper" ELSE s

(***************************************************************************)
(* Initial state: the server is up, no request has been received.  The     *)
(* cache directory holds a file written by an earlier request.             *)
(***************************************************************************)
NoResponse == [status |-> 0, file |-> 0, error |-> ""]

\* no earlier run of clear_audio_cache is remembered
NoPrev ==
    [valid |-> FALSE, dir |-> {}, current_time |-> 0, removed |-> {},
     failed |-> {}]

\* clear_audio_cache is not running and has not run.  removed and failed
\* are the files whose os.remove returned and raised in the current run;
\* quiet is whether no one else touched the directory since the run
\* began; prev is the run before it and the directory it left, remembered
\* as long as no one else touched the directory.
NoSweep ==
    [pc |-> "idle", ran |-> FALSE, current_time |-> 0, listing |-> <<>>,
     k |-> 0, removed |-> {}, failed |-> {}, quiet |-> TRUE, prev |-> NoPrev]

Init ==
    /\ pc = "idle"
    /\ PIPER_AVAILABLE \in BOOLEAN
    /\ text = <<>>
    /\ format_param = ""
    /\ engine = ""
    /\ voice_key = ""
    /\ sentence_silence = 0
    /\ words = <<>>
    /\ wi = 0
    /\ current_paragraph_words = <<>>
    /\ paragraphs = <<>>
    /\ i = 0
    /\ audio_segments = <<>>
    /\ calls = <<>>
    /\ cache = {[name |-> 0, ext |-> "wav", role |-> "earlier", complete |-> TRUE,
                  data |-> [format |-> "wav", samples |-> <<<<0, 1>>>>],
                  mtime |-> 0]}
    /\ next_uuid = 1
    /\ response = NoResponse
    /\ now = 0
    /\ writing = {}
    /\ sweep = NoSweep

\* return jsonify({"error": ...}), status
Error(status) ==
    /\ response' = [status |-> status, file |-> 0, error |-> ""]
    /\ pc' = "done"

\* variant: the format is not validated
SupportedFormat_Any(f) == TRUE

\* format_param in ['wav', 'mp3']
SupportedFormat(f) == f \in {"wav", "mp3"}

\* variant: the limit itself is already split
ExceedsLimit_Inclusive(ws) == Len(ws) >= MAX_WORDS

\* handle_piper_request: len(words) > 500
ExceedsLimit(ws) == Len(ws) > MAX_WORDS

(***************************************************************************)
(* tts_endpoint up to the call of the engine handler, and the handler up   *)
(* to the call of the generating function.  GOOGLE_AVAILABLE is fixed at   *)
(* import time; the request reads it here and nowhere later.  The request  *)
(* body is a JSON object whose numeric fields are numbers.                 *)
(***************************************************************************)
Request ==
    /\ pc = "idle"
    /\ \E raw_text \in Texts, raw_format \in RawFormats, raw_engine \in RawEngines,
          voice \in Voices, silence \in Silences, GOOGLE_AVAILABLE \in BOOLEAN :
        LET t == Strip(raw_text)
            f == Lower(raw_format)
            e == Lower(raw_engine)
        IN  /\ text' = t
            /\ format_param' = f
            /\ engine' = e
            /\ IF t = <<>> THEN
                    Error(400) /\ UNCHANGED <<voice_key, sentence_silence, words>>
               ELSE IF ~SupportedFormat(f) THEN
                    Error(400) /\ UNCHANGED <<voice_key, sentence_silence, words>>
               ELSE IF e = "piper" THEN
                    IF ~PIPER_AVAILABLE THEN
                        Error(501) /\ UNCHANGED <<voice_key, sentence_silence, words>>
                    ELSE
                        /\ voice_key' = voice
                        /\ sentence_silence' = silence
                        /\ IF voice \notin AVAILABLE_PIPER_VOICES THEN
                                Error(400) /\ UNCHANGED words      \* ValueError
                           ELSE
                                /\ words' = Split(t)
                                /\ UNCHANGED response
                                /\ IF ExceedsLimit(Split(t))
                                   THEN pc' = "split"
                                   ELSE pc' = "call"
               ELSE IF e = "google" THEN
                    /\ UNCHANGED <<voice_key, sentence_silence, words>>
                    /\ IF ~GOOGLE_AVAILABLE
                       THEN Error(503)
                       ELSE pc' = "google_call" /\ UNCHANGED response
               ELSE
                    Error(400) /\ UNCHANGED <<voice_key, sentence_silence, words>>
    /\ UNCHANGED <<sweep_vars, PIPER_AVAILABLE, wi, current_paragraph_words, paragraphs, i,
                   audio_segments, calls, cache, next_uuid>>

(***************************************************************************)
(* generate_audio_by_splitting_piper: the splitting loop, one iteration    *)
(* of "for word in words" per step.                                        *)
(***************************************************************************)
\* variant: the soft break only after word 450
SoftBreak_Late(cur, word) == Len(cur) > SOFT_BREAK_WORDS /\ EndsWithSentenceEnd(word)

\* len(current_paragraph_words) >= 450 and word.endswith(('.', '!', '?'))
SoftBreak(cur, word) == Len(cur) >= SOFT_BREAK_WORDS /\ EndsWithSentenceEnd(word)

\* variant: the hard cutoff one word late
HardBreak_Late(cur) == Len(cur) > MAX_WORDS

\* len(current_paragraph_words) >= 500
HardBreak(cur) == Len(cur) >= MAX_WORDS

SplitIter ==
    /\ pc = "split"
    /\ wi < Len(words)
    /\ LET word == words[wi + 1]
           cur  == Append(current_paragraph_words, word)
       IN  /\ wi' = wi + 1
           /\ IF SoftBreak(cur, word) THEN
                   /\ paragraphs' = Append(paragraphs, Join(cur))
                   /\ current_paragraph_words' = <<>>
              ELSE IF HardBreak(cur) THEN
                   /\ paragraphs' = Append(paragraphs, Join(cur))
                   /\ current_paragraph_words' = <<>>
              ELSE
                   /\ paragraphs' = paragraphs
                   /\ current_paragraph_words' = cur
    /\ UNCHANGED <<sweep_vars, pc, PIPER_AVAILABLE, text, format_param, engine, voice_key,
                   sentence_silence, words, i, audio_segments, calls, cache, next_uuid,
                   response>>

\* variant: the words after the last closed chunk are forgotten
WithTrailing_Dropped(paras, cur) == paras

\* if current_paragraph_words: paragraphs.append(' '.join(...))
WithTrailing(paras, cur) ==
    IF cur # <<>> THEN Append(paras, Join(cur)) ELSE paras

\* after the loop: the trailing words, and the guard on an empty list
SplitEnd ==
    /\ pc = "split"
    /\ wi = Len(words)
    /\ LET ps == WithTrailing(paragraphs, current_paragraph_words)
       IN  /\ paragraphs' = ps
           /\ IF ps = <<>> THEN
                   \* return None: tts_endpoint answers 500
                   Error(500)
              ELSE
                   pc' = "chunk_call" /\ UNCHANGED response
    /\ UNCHANGED <<sweep_vars, PIPER_AVAILABLE, text, format_param, engine, voice_key,
                   sentence_silence, words, wi, current_paragraph_words, i,
                   audio_segments, calls, cache, next_uuid>>

(***************************************************************************)
(* Exceptions are named by their class.  tts_endpoint maps what the Piper  *)
(* handler raises to a status.                                             *)
(***************************************************************************)
PiperStatus(exc) ==
    IF exc \in {"ValueError", "FileNotFoundError"} THEN 400
    ELSE IF exc = "NotImplementedError" THEN 501
    ELSE 500

\* except ... as e: return jsonify({"error": str(e)}), status
PiperError(exc) ==
    /\ response' = [status |-> PiperStatus(exc), file |-> 0, error |-> exc]
    /\ pc' = "done"

\* load_piper_voice: "ok" or the exception it raises.  model_exists is
\* model_path.exists(), loads is whether PiperVoice.load returns.
load_piper_voice(vk, model_exists, loads) ==
    IF ~PIPER_AVAILABLE THEN "NotImplementedError"
    ELSE IF vk \notin AVAILABLE_PIPER_VOICES THEN "ValueError"
    ELSE IF ~model_exists THEN "FileNotFoundError"
    ELSE IF ~loads THEN "Exception"
    ELSE "ok"

\* what voice_instance.synthesize writes for a call: len samples, tagged
\* with the number of the call that produced them
Synthesized(call, len) == [k \in 1..len |-> <<call, k>>]

\* the bytes of an audio file: the container and the samples it encodes
Encode(fmt, samples) == [format |-> fmt, samples |-> samples]

\* pydub.AudioSegment.from_file on a complete file
Decode(data) == data.samples

\* the file open(path, 'wb') + write (or export) leaves under a fresh name;
\* complete is FALSE when the write stopped part-way
NewFile(fmt, role, samples, complete) ==
    [name |-> next_uuid, ext |-> fmt, role |-> role, complete |-> complete,
     data |-> IF complete THEN Encode(fmt, samples) ELSE Encode(fmt, <<>>),
     mtime |-> now]

\* variant: every chunk gets the configured silence
ChunkSilence_All(idx, n, silence) == silence

\* the sentence_silence argument of the call for paragraphs[idx] (0-based)
ChunkSilence(idx, n, silence) == IF idx < n - 1 THEN silence ELSE 0

\* variant: the silence argument is not passed on (the default 0.0 applies)
Call_DefaultSilence(chunk, txt, fmt, silence) ==
    [chunk |-> chunk, text |-> txt, format |-> fmt, sentence_silence |-> 0,
     result |-> "pending", audio |-> <<>>]

\* the call of voice_instance.synthesize, as logged
Call(chunk, txt, fmt, silence) ==
    [chunk |-> chunk, text |-> txt, format |-> fmt, sentence_silence |-> silence,
     result |-> "pending", audio |-> <<>>]

Returned(result, audio) ==
    [calls EXCEPT ![Len(calls)].result = result, ![Len(calls)].audio = audio]

\* send_file(audio_file_path) if the path exists, else 500
Send(path, files) ==
    /\ pc' = "done"
    /\ response' = IF \E f \in files : f.name = path
                   THEN [status |-> 200, file |-> path, error |-> ""]
                   ELSE [status |-> 500, file |-> 0, error |-> ""]

(***************************************************************************)
(* generate_audio_piper for a text within the limit (handle_piper_request, *)
(* else branch): load the voice and submit the text to the engine.         *)
(***************************************************************************)
SingleCall ==
    /\ pc = "call"
    /\ \E model_exists \in BOOLEAN, loads \in BOOLEAN :
        LET r == load_piper_voice(voice_key, model_exists, loads)
        IN  IF r = "ok" THEN
                /\ calls' = Append(calls, Call(0, text, format_param, sentence_silence))
                /\ pc' = "synth"
                /\ UNCHANGED response
            ELSE
                /\ PiperError(r)
                /\ UNCHANGED calls
    /\ UNCHANGED <<sweep_vars, PIPER_AVAILABLE, text, format_param, engine, voice_key,
                   sentence_silence, words, wi, current_paragraph_words,
                   paragraphs, i, audio_segments, cache, next_uuid>>

SingleOutcomes == {"ok", "synthesize raises", "export raises", "open raises", "write raises"}

\* the engine returns (or raises); conversion to mp3; the output file
SingleReturn ==
    /\ pc = "synth"
    /\ \E outcome \in SingleOutcomes, len \in 1..MaxSegLen :
        LET audio == Synthesized(Len(calls), len)
        IN  /\ outcome = "export raises" => format_param = "mp3"
            /\ IF outcome = "synthesize raises" THEN
                    /\ calls' = Returned("raised", <<>>)
                    /\ PiperError("Exception")
                    /\ UNCHANGED <<cache, next_uuid>>
               ELSE IF outcome = "export raises" THEN
                    /\ calls' = Returned("ok", audio)
                    /\ PiperError("Exception")
                    /\ UNCHANGED <<cache, next_uuid>>
               ELSE IF outcome = "open raises" THEN
                    /\ calls' = Returned("ok", audio)
                    /\ PiperError("OSError")
                    /\ next_uuid' = next_uuid + 1
                    /\ UNCHANGED cache
               ELSE IF outcome = "write raises" THEN
                    /\ calls' = Returned("ok", audio)
                    /\ PiperError("OSError")
                    /\ next_uuid' = next_uuid + 1
                    /\ cache' = cache \cup {NewFile(format_param, "final", audio, FALSE)}
               ELSE
                    /\ calls' = Returned("ok", audio)
                    /\ next_uuid' = next_uuid + 1
                    /\ cache' = cache \cup {NewFile(format_param, "final", audio, TRUE)}
                    /\ Send(next_uuid, cache')
    /\ UNCHANGED <<sweep_vars, PIPER_AVAILABLE, text, format_param, engine, voice_key,
                   sentence_silence, words, wi, current_paragraph_words,
                   paragraphs, i, audio_segments>>

(***************************************************************************)
(* generate_audio_by_splitting_piper: the loop over the paragraphs.        *)
(* ChunkCall is generate_audio_piper up to the engine call for             *)
(* paragraphs[i]; ChunkReturn is the rest of the iteration.                *)
(***************************************************************************)
ChunkCall ==
    /\ pc = "chunk_call"
    /\ i < Len(paragraphs)
    /\ \E model_exists \in BOOLEAN, loads \in BOOLEAN :
        LET r == load_piper_voice(voice_key, model_exists, loads)
        IN  IF r = "ok" THEN
                /\ calls' = Append(calls,
                        Call(i + 1, paragraphs[i + 1], "wav",
                             ChunkSilence(i, Len(paragraphs), sentence_silence)))
                /\ pc' = "chunk_synth"
                /\ UNCHANGED response
            ELSE
                /\ PiperError(r)
                /\ UNCHANGED calls
    /\ UNCHANGED <<sweep_vars, PIPER_AVAILABLE, text, format_param, engine, voice_key,
                   sentence_silence, words, wi, current_paragraph_words,
                   paragraphs, i, audio_segments, cache, next_uuid>>

\* what can happen in one iteration.  The copy of the function in
\* engines/piper_tts.py has os.remove inside the try block, so there an
\* OSError of os.remove is re-raised; app.py logs it and goes on.
ChunkOutcomes ==
    {"ok", "synthesize raises", "open raises", "write raises", "from_file raises",
     "remove raises", "remove raises, re-raised"}

\* where the loop goes after an iteration that did not raise
AfterChunk == IF i + 1 < Len(paragraphs) THEN "chunk_call" ELSE "combine"

\* variant: the failed chunk is submitted again
ChunkRaise_Retry(exc) ==
    /\ pc' = "chunk_call"
    /\ UNCHANGED <<response, i>>

\* variant: the failed chunk is skipped and the loop goes on
ChunkRaise_Continue(exc) ==
    /\ pc' = AfterChunk
    /\ i' = i + 1
    /\ UNCHANGED response

\* except Exception as e: logging.error(...); raise
ChunkRaise(exc) ==
    /\ PiperError(exc)
    /\ UNCHANGED i

ChunkReturn ==
    /\ pc = "chunk_synth"
    /\ \E outcome \in ChunkOutcomes, len \in 1..MaxSegLen :
        LET audio == Synthesized(Len(calls), len)
            chunk_file == NewFile("wav", "chunk", audio, TRUE)
        IN  IF outcome = "synthesize raises" THEN
                /\ calls' = Returned("raised", <<>>)
                /\ ChunkRaise("Exception")
                /\ UNCHANGED <<cache, next_uuid, audio_segments>>
            ELSE IF outcome = "open raises" THEN
                /\ calls' = Returned("ok", audio)
                /\ ChunkRaise("OSError")
                /\ next_uuid' = next_uuid + 1
                /\ UNCHANGED <<cache, audio_segments>>
            ELSE IF outcome = "write raises" THEN
                /\ calls' = Returned("ok", audio)
                /\ ChunkRaise("OSError")
                /\ next_uuid' = next_uuid + 1
                /\ cache' = cache \cup {NewFile("wav", "chunk", audio, FALSE)}
                /\ UNCHANGED audio_segments
            ELSE IF outcome = "from_file raises" THEN
                \* the chunk file is written; the except clause re-raises
                /\ calls' = Returned("ok", audio)
                /\ ChunkRaise("Exception")
                /\ next_uuid' = next_uuid + 1
                /\ cache' = cache \cup {chunk_file}
                /\ UNCHANGED audio_segments
            ELSE IF outcome = "remove raises, re-raised" THEN
                /\ calls' = Returned("ok", audio)
                /\ ChunkRaise("OSError")
                /\ next_uuid' = next_uuid + 1
                /\ audio_segments' = Append(audio_segments, Decode(chunk_file.data))
                /\ cache' = cache \cup {chunk_file}
            ELSE
                /\ calls' = Returned("ok", audio)
                /\ next_uuid' = next_uuid + 1
                /\ audio_segments' = Append(audio_segments, Decode(chunk_file.data))
                \* os.remove: an OSError is logged and the loop goes on
                /\ cache' = IF outcome = "remove raises"
                            THEN cache \cup {chunk_file}
                            ELSE (cache \cup {chunk_file}) \ {chunk_file}
                /\ i' = i + 1
                /\ pc' = AfterChunk
                /\ UNCHANGED response
    /\ UNCHANGED <<sweep_vars, PIPER_AVAILABLE, text, format_param, engine, voice_key,
                   sentence_silence, words, wi, current_paragraph_words,
                   paragraphs>>

\* variant: each segment is put in front of the combination
RECURSIVE Combined_Reversed(_)
Combined_Reversed(segments) ==
    IF segments = <<>> THEN <<>>
    ELSE segments[Len(segments)] \o Combined_Reversed(SubSeq(segments, 1, Len(segments) - 1))

\* combined_audio = AudioSegment.empty(); for segment in audio_segments:
\* combined_audio += segment
RECURSIVE Combined(_)
Combined(segments) ==
    IF segments = <<>> THEN <<>>
    ELSE Combined(SubSeq(segments, 1, Len(segments) - 1)) \o segments[Len(segments)]

ExportOutcomes == {"ok", "export raises", "export raises part-way"}

\* the combination and combined_audio.export to a fresh file
Combine ==
    /\ pc = "combine"
    /\ \E outcome \in ExportOutcomes :
        LET combined_audio == Combined(audio_segments)
        IN  /\ next_uuid' = next_uuid + 1
            /\ IF outcome = "export raises" THEN
                    /\ PiperError("Exception")
                    /\ UNCHANGED cache
               ELSE IF outcome = "export raises part-way" THEN
                    /\ PiperError("Exception")
                    /\ cache' = cache \cup {NewFile(format_param, "final", combined_audio, FALSE)}
               ELSE
                    /\ cache' = cache \cup {NewFile(format_param, "final", combined_audio, TRUE)}
                    /\ Send(next_uuid, cache')
    /\ UNCHANGED <<sweep_vars, PIPER_AVAILABLE, text, format_param, engine, voice_key,
                   sentence_silence, words, wi, current_paragraph_words,
                   paragraphs, i, audio_segments, calls>>

(***************************************************************************)
(* handle_google_request and generate_audio_google: the whole text goes to *)
(* the remote API in one call, whatever its length.                        *)
(***************************************************************************)
GoogleStatus(exc) ==
    IF exc = "ValueError" THEN 400
    ELSE IF exc = "PermissionError" THEN 403
    ELSE IF exc = "NotImplementedError" THEN 503
    ELSE 500

\* except ... as e: return jsonify({"error": str(e)}), status
GoogleError(exc) ==
    /\ response' = [status |-> GoogleStatus(exc), file |-> 0, error |-> exc]
    /\ pc' = "done"

\* what generate_audio_google raises for what synthesize_speech raises
GoogleRaised(api_exc) ==
    IF api_exc = "InvalidArgument" THEN "ValueError"
    ELSE IF api_exc = "PermissionDenied" THEN "PermissionError"
    ELSE IF api_exc \in {"ResourceExhausted", "GoogleAPIError"} THEN "RuntimeError"
    ELSE "Exception"

GoogleCall ==
    /\ pc = "google_call"
    /\ calls' = Append(calls, Call(0, text, format_param, 0))
    /\ pc' = "google_synth"
    /\ UNCHANGED <<sweep_vars, PIPER_AVAILABLE, text, format_param, engine, voice_key,
                   sentence_silence, words, wi, current_paragraph_words,
                   paragraphs, i, audio_segments, cache, next_uuid, response>>

GoogleOutcomes ==
    {"ok", "InvalidArgument", "PermissionDenied", "ResourceExhausted",
     "GoogleAPIError", "Exception", "open raises", "write raises"}

GoogleReturn ==
    /\ pc = "google_synth"
    /\ \E outcome \in GoogleOutcomes, len \in 1..MaxSegLen :
        LET audio == Synthesized(Len(calls), len)
        IN  IF outcome \notin {"ok", "open raises", "write raises"} THEN
                /\ calls' = Returned("raised", <<>>)
                /\ GoogleError(GoogleRaised(outcome))
                /\ UNCHANGED <<cache, next_uuid>>
            ELSE IF outcome = "open raises" THEN
                /\ calls' = Returned("ok", audio)
                /\ GoogleError("OSError")
                /\ next_uuid' = next_uuid + 1
                /\ UNCHANGED cache
            ELSE IF outcome = "write raises" THEN
                /\ calls' = Returned("ok", audio)
                /\ GoogleError("OSError")
                /\ next_uuid' = next_uuid + 1
                /\ cache' = cache \cup {NewFile(format_param, "final", audio, FALSE)}
            ELSE
                /\ calls' = Returned("ok", audio)
                /\ next_uuid' = next_uuid + 1
                /\ cache' = cache \cup {NewFile(format_param, "final", audio, TRUE)}
                /\ Send(next_uuid, cache')
    /\ UNCHANGED <<sweep_vars, PIPER_AVAILABLE, text, format_param, engine, voice_key,
                   sentence_silence, words, wi, current_paragraph_words,
                   paragraphs, i, audio_segments>>

Next ==
    \/ Request
    \/ SplitIter
    \/ SplitEnd
    \/ SingleCall
    \/ SingleReturn
    \/ ChunkCall
    \/ ChunkReturn
    \/ Combine
    \/ GoogleCall
    \/ GoogleReturn

Spec == Init /\ [][Next]_vars

(***************************************************************************)
(* clear_audio_cache, one step per file system call, next to requests of   *)
(* other workers that create, write and remove files of CACHE_DIR.  The    *)
(* clock advances by a second or by a day.                                 *)
(***************************************************************************)
MaxFiles == 1

MaxDays == 2

MaxSeconds == 1

\* what no step of the sweep or of the other workers changes
request_vars == <<pc, PIPER_AVAILABLE, text, format_param, engine, voice_key,
                  sentence_silence, words, wi, current_paragraph_words,
                  paragraphs, i, audio_segments, calls, response>>

\* the orders in which os.listdir may return the names of dir
Listings(dir) ==
    LET names == {f.name : f \in dir}
        n     == Cardinality(names)
    IN  {l \in [1..n -> names] : \A a, b \in 1..n : l[a] = l[b] => a = b}

\* variant: a file of exactly one day is removed too
Expired_Inclusive(current_time, file_mtime) ==
    (current_time - file_mtime) >= one_day_in_seconds

\* (current_time - file_mtime) > one_day_in_seconds
Expired(current_time, file_mtime) ==
    (current_time - file_mtime) > one_day_in_seconds

\* the run is over
EndRun(s) == [s EXCEPT !.pc = "idle", !.ran = TRUE, !.listing = <<>>, !.k = 0]

\* variant: the loop is left after the first removal
Advance_StopAfterRemoval(s) ==
    IF s.k = Len(s.listing) \/ s.removed # {}
    THEN EndRun(s)
    ELSE [s EXCEPT !.k = @ + 1, !.pc = "isfile"]

\* for filename in os.listdir(CACHE_DIR): the next entry, or the end
Advance(s) ==
    IF s.k = Len(s.listing)
    THEN EndRun(s)
    ELSE [s EXCEPT !.k = @ + 1, !.pc = "isfile"]

\* another worker touched the directory
Disturbed == [sweep EXCEPT !.quiet = FALSE, !.prev = NoPrev]

\* time passes, while no file is held open
Tick ==
    /\ writing = {}
    /\ \E d \in {1, one_day_in_seconds} :
        /\ d = 1 => now % one_day_in_seconds < MaxSeconds
        /\ d = one_day_in_seconds => now \div one_day_in_seconds < MaxDays
        /\ now' = now + d
    /\ UNCHANGED <<request_vars, cache, next_uuid, writing, sweep>>

\* another request: open(chunk_file_path, 'wb') under a fresh name
OtherOpen ==
    /\ next_uuid <= MaxFiles
    /\ cache' = cache \cup {NewFile("wav", "chunk", <<>>, FALSE)}
    /\ writing' = writing \cup {next_uuid}
    /\ next_uuid' = next_uuid + 1
    /\ sweep' = Disturbed
    /\ UNCHANGED <<request_vars, now>>

\* another request: audio_file.write(audio_data) and close
OtherWrite ==
    /\ \E f \in cache :
        /\ f.name \in writing
        /\ writing' = writing \ {f.name}
        /\ cache' = (cache \ {f}) \cup
                     {[f EXCEPT !.complete = TRUE,
                                !.data = Encode(f.ext, Synthesized(f.name, 1)),
                                !.mtime = now]}
    /\ sweep' = Disturbed
    /\ UNCHANGED <<request_vars, next_uuid, now>>

\* another request: os.remove(chunk_file_path) of its own chunk file
OtherRemove ==
    /\ \E f \in cache :
        /\ f.role = "chunk"
        /\ f.complete
        /\ cache' = cache \ {f}
    /\ sweep' = Disturbed
    /\ UNCHANGED <<request_vars, next_uuid, now, writing>>

\* current_time = time.time(); os.listdir(CACHE_DIR)
SweepStart ==
    /\ sweep.pc = "idle"
    /\ \E l \in Listings(cache) :
        sweep' = Advance([sweep EXCEPT
                    !.current_time = now, !.listing = l, !.k = 0,
                    !.removed = {}, !.failed = {}, !.quiet = TRUE,
                    !.prev = IF sweep.ran /\ sweep.quiet
                             THEN [valid |-> TRUE, dir |-> cache,
                                   current_time |-> sweep.current_time,
                                   removed |-> sweep.removed,
                                   failed |-> sweep.failed]
                             ELSE NoPrev])
    /\ UNCHANGED <<request_vars, cache, next_uuid, now, writing>>

\* os.path.isfile(file_path): an entry that is gone is skipped
SweepIsFile ==
    /\ sweep.pc = "isfile"
    /\ sweep' = IF \E f \in cache : f.name = sweep.listing[sweep.k]
                THEN [sweep EXCEPT !.pc = "getmtime"]
                ELSE Advance(sweep)
    /\ UNCHANGED <<request_vars, cache, next_uuid, now, writing>>

\* os.path.getmtime(file_path) and the comparison; getmtime raises
\* FileNotFoundError on an entry that is gone, outside of any try
SweepGetMtime ==
    /\ sweep.pc = "getmtime"
    /\ IF \E f \in cache : f.name = sweep.listing[sweep.k]
       THEN LET f == CHOOSE f \in cache : f.name = sweep.listing[sweep.k]
            IN  sweep' = IF Expired(sweep.current_time, f.mtime)
                         THEN [sweep EXCEPT !.pc = "remove"]
                         ELSE Advance(sweep)
       ELSE sweep' = [sweep EXCEPT !.pc = "raised"]
    /\ UNCHANGED <<request_vars, cache, next_uuid, now, writing>>

\* os.remove(file_path) in try / except OSError: an entry that is gone or
\* cannot be removed is logged
SweepRemove ==
    /\ sweep.pc = "remove"
    /\ IF \E f \in cache : f.name = sweep.listing[sweep.k]
       THEN LET f == CHOOSE f \in cache : f.name = sweep.listing[sweep.k]
            IN  \E removes \in BOOLEAN :
                    IF removes
                    THEN /\ cache' = cache \ {f}
                         /\ sweep' = Advance([sweep EXCEPT !.removed = @ \cup {f}])
                    ELSE /\ cache' = cache
                         /\ sweep' = Advance([sweep EXCEPT !.failed = @ \cup {f}])
       ELSE /\ cache' = cache
            /\ sweep' = Advance(sweep)
    /\ UNCHANGED <<request_vars, next_uuid, now, writing>>

NextSweep ==
    \/ Tick
    \/ OtherOpen
    \/ OtherWrite
    \/ OtherRemove
    \/ SweepStart
    \/ SweepIsFile
    \/ SweepGetMtime
    \/ SweepRemove

\* the server is up with the Piper library installed
InitSweep == Init /\ PIPER_AVAILABLE

SpecSweep == InitSweep /\ [][NextSweep]_vars

(***************************************************************************)
(* Properties.                                                             *)
(***************************************************************************)
\* the files of CACHE_DIR this request created
OwnFiles == {f \in cache : f.role # "earlier"}

\* the splitting loop has run and the chunk list is built
SplitDone == wi > 0 /\ pc # "split"

\* the request went through the Piper handler's splitting branch
Splitting == engine = "piper" /\ (pc = "split" \/ wi > 0)

\* the words of the chunks, chunk after chunk
RECURSIVE WordsOf(_)
WordsOf(paras) ==
    IF paras = <<>> THEN <<>>
    ELSE WordsOf(SubSeq(paras, 1, Len(paras) - 1)) \o Split(paras[Len(paras)])

\* C1: for a text of more than 500 words, the words of the chunks of the
\* built chunk list, concatenated in chunk order, are exactly text.split():
\* nothing duplicated, dropped or reordered.
C1_WordsPreserved ==
    SplitDone => (Len(Split(text)) > MAX_WORDS /\ WordsOf(paragraphs) = Split(text))

C1_Witness ==
    /\ SplitDone
    /\ Len(paragraphs) = 3
    /\ Len(current_paragraph_words) > 0
    /\ WordsOf(paragraphs) = Split(text)

\* C2: every chunk the splitting loop emits has at least 1 and at most 500
\* words, also for a text without any word ending in '.', '!' or '?'.
C2_ChunkSize ==
    \A k \in 1..Len(paragraphs) :
        /\ Len(Split(paragraphs[k])) >= 1
        /\ Len(Split(paragraphs[k])) <= MAX_WORDS

\* 501 words, none ending a sentence: two chunks, of 500 words and 1 word
C2_Witness ==
    /\ SplitDone
    /\ Len(words) = MAX_WORDS + 1
    /\ \A k \in 1..Len(words) : ~EndsWithSentenceEnd(words[k])
    /\ Len(paragraphs) = 2
    /\ Len(Split(paragraphs[1])) = MAX_WORDS
    /\ Len(Split(paragraphs[2])) = 1

\* C3: a Piper request whose trimmed text has at most 500 words is not
\* split: every engine call it makes has the whole trimmed text, there is
\* at most one, and on success there is exactly one call and exactly one
\* file of the request, in the requested format.
C3_NoSplitWithinLimit ==
    (engine = "piper" /\ pc # "idle" /\ Len(Split(text)) <= MAX_WORDS) =>
        /\ paragraphs = <<>>
        /\ wi = 0
        /\ Len(calls) <= 1
        /\ \A k \in 1..Len(calls) : calls[k].text = text /\ text = Strip(text)
        /\ (pc = "done" /\ response.status = 200) =>
              /\ Len(calls) = 1
              /\ Cardinality(OwnFiles) = 1
              /\ \A f \in OwnFiles :
                    f.ext = format_param /\ f.name = response.file /\ f.complete

\* exactly 500 words, as mp3
C3_Witness ==
    /\ engine = "piper"
    /\ pc = "done"
    /\ response.status = 200
    /\ Len(Split(text)) = MAX_WORDS
    /\ format_param = "mp3"
    /\ Len(calls) = 1
    /\ calls[1].text = text

\* C4: in a split request of N chunks the call for chunk c < N carries the
\* configured sentence_silence and the call for chunk N carries 0.
C4_SilenceBetweenChunks ==
    Splitting =>
        \A k \in 1..Len(calls) :
            calls[k].sentence_silence =
                IF calls[k].chunk < Len(paragraphs) THEN sentence_silence ELSE 0

C4_Witness ==
    /\ Splitting
    /\ pc = "done"
    /\ sentence_silence = 2
    /\ Len(paragraphs) = 3
    /\ Len(calls) = 3
    /\ calls[1].sentence_silence = 2
    /\ calls[2].sentence_silence = 2
    /\ calls[3].sentence_silence = 0

\* C5 as stated: in every Piper request, a single-chunk one included, the
\* final chunk is synthesized with sentence_silence 0.
C5_FinalAlwaysZero ==
    (engine = "piper" /\ pc = "done" /\ response.status = 200) =>
        calls[Len(calls)].sentence_silence = 0

\* C5 amended: the call of a request within the limit carries the
\* configured sentence_silence; the call for the last chunk of a split
\* request carries 0.
C5_FinalZeroOnlyWhenSplit ==
    engine = "piper" =>
        \A k \in 1..Len(calls) :
            /\ calls[k].chunk = 0 => calls[k].sentence_silence = sentence_silence
            /\ (calls[k].chunk >= 1 /\ calls[k].chunk = Len(paragraphs)) =>
                    calls[k].sentence_silence = 0

C5_Witness ==
    /\ engine = "piper"
    /\ pc = "done"
    /\ response.status = 200
    /\ paragraphs = <<>>
    /\ sentence_silence = 2
    /\ calls[1].sentence_silence = 2

\* C6: in a split request the engine calls are made one after the other in
\* chunk order: the k-th call is for chunk k, every call before the latest
\* has returned its audio and its segment is held, so no chunk is submitted
\* twice and nothing is submitted after a call that raised.
C6_SequentialCalls ==
    Splitting =>
        /\ \A k \in 1..Len(calls) :
              calls[k].chunk = k /\ calls[k].text = paragraphs[k]
        /\ \A k \in 1..(Len(calls) - 1) :
              calls[k].result = "ok" /\ Len(audio_segments) >= k
        /\ pc = "chunk_synth" <=> (calls # <<>> /\ calls[Len(calls)].result = "pending")

C6_Witness ==
    /\ Splitting
    /\ pc = "chunk_synth"
    /\ Len(calls) = 3
    /\ calls[2].result = "ok"
    /\ Len(audio_segments) = 2

\* the total length of the audio the first n calls returned
RECURSIVE TotalLen(_)
TotalLen(n) == IF n = 0 THEN 0 ELSE TotalLen(n - 1) + Len(calls[n].audio)

\* C7: when all N chunk syntheses succeed, the combined audio is the N
\* segments in chunk order, L1 + ... + LN samples long.
C7_CombinedIsConcatenation ==
    (Splitting /\ pc = "done" /\ response.status = 200) =>
        \A f \in {g \in OwnFiles : g.role = "final"} :
            /\ Len(calls) = Len(paragraphs)
            /\ Len(f.data.samples) = TotalLen(Len(calls))
            /\ \A k \in 1..Len(calls) : \A j \in 1..Len(calls[k].audio) :
                  f.data.samples[TotalLen(k - 1) + j] = calls[k].audio[j]

C7_Witness ==
    /\ Splitting
    /\ pc = "done"
    /\ response.status = 200
    /\ Len(calls) = 3
    /\ \E f \in OwnFiles :
          /\ f.role = "final"
          /\ Len(f.data.samples) = 2 * MaxSegLen + 1
          /\ Len(calls[2].audio) = 1

\* C8: when the synthesis of chunk k of a split request fails, no later
\* chunk is submitted, no final file is written, and the answer is an error.
C8_AbortOnChunkFailure ==
    Splitting =>
        /\ \A k \in 1..Len(calls) :
              calls[k].result = "raised" => (k = Len(calls) /\ pc = "done")
        /\ (pc = "done" /\ Len(audio_segments) < Len(paragraphs)) =>
              /\ response.status >= 400
              /\ response.file = 0
              /\ Len(calls) <= Len(audio_segments) + 1
              /\ \A f \in OwnFiles : f.role # "final"

\* chunk 2 of 3 raised
C8_Witness ==
    /\ Splitting
    /\ pc = "done"
    /\ Len(paragraphs) = 3
    /\ Len(calls) = 2
    /\ calls[2].result = "raised"
    /\ response.status = 500

\* C9 as stated: after a split request has failed in the chunk loop, none
\* of its per-chunk files is left in the cache directory.
C9_NoChunkFileAfterFailure ==
    (Splitting /\ pc = "done" /\ response.status # 200) =>
        \A f \in OwnFiles : f.role # "chunk"

\* C10 as stated: a request that fails leaves no file of its own, and a
\* request that succeeds leaves exactly one, the final audio.
C10_OneFileOrNone ==
    pc = "done" =>
        IF response.status = 200
        THEN Cardinality(OwnFiles) = 1 /\ \A f \in OwnFiles : f.role = "final"
        ELSE OwnFiles = {}

\* the request passes the validation shared by the engines
ValidRequest ==
    /\ text # <<>>
    /\ format_param \in {"wav", "mp3"}
    /\ engine \in {"piper", "google"}

\* C11: a request whose trimmed text is empty, whose format is neither wav
\* nor mp3, or whose engine is not a supported one is answered 4xx before
\* any engine handler or engine call, and no file is written.
C11_RejectedBeforeEngine ==
    (pc # "idle" /\ ~ValidRequest) =>
        /\ pc = "done"
        /\ response.status >= 400 /\ response.status <= 499
        /\ response.file = 0
        /\ voice_key = "" /\ words = <<>> /\ wi = 0 /\ paragraphs = <<>>
        /\ calls = <<>>
        /\ OwnFiles = {}
        /\ next_uuid = 1

\* format "ogg" with a text of 501 words for the Piper engine
C11_Witness ==
    /\ pc = "done"
    /\ format_param = "ogg"
    /\ engine = "piper"
    /\ PIPER_AVAILABLE
    /\ Len(Split(text)) > MAX_WORDS
    /\ response.status = 400

\* C17 as stated: a file in the cache directory under a final artifact
\* name always holds the complete encoded audio; a write or export that
\* fails part-way leaves no empty or truncated file.
C17_FinalFileComplete ==
    \A f \in OwnFiles : f.role = "final" => f.complete

\* the words of chunk k
ChunkWords(k) == Split(paragraphs[k])

\* C18: every chunk but the last has exactly 500 words, or 450 to 499 words
\* the last of which ends a sentence; and no chunk has a word ending a
\* sentence at a position from 450 up to its second-to-last word.
C18_ClosedAtFirstBoundary ==
    SplitDone =>
        \A k \in 1..Len(paragraphs) :
            LET ws == ChunkWords(k)
            IN  /\ k < Len(paragraphs) =>
                      \/ Len(ws) = MAX_WORDS
                      \/ /\ Len(ws) >= SOFT_BREAK_WORDS
                         /\ Len(ws) < MAX_WORDS
                         /\ EndsWithSentenceEnd(ws[Len(ws)])
                /\ \A p \in SOFT_BREAK_WORDS..(Len(ws) - 1) :
                      ~EndsWithSentenceEnd(ws[p])

\* a chunk closed at word 451, the first sentence end from 450 on, although
\* word 452 ends a sentence too; and a chunk closed at 500 without one
C18_Witness ==
    /\ SplitDone
    /\ Len(paragraphs) = 2
    /\ Len(ChunkWords(1)) = SOFT_BREAK_WORDS + 1
    /\ EndsWithSentenceEnd(ChunkWords(2)[1])

\* the selected engine could not be constructed: the Piper library is
\* absent, the model file of the voice is missing or does not load, or the
\* Google client is not initialised
EngineUnavailable ==
    /\ pc = "done"
    /\ ValidRequest
    /\ \/ engine = "piper" /\ ~PIPER_AVAILABLE
       \/ engine = "piper" /\ response.error = "FileNotFoundError"
       \/ engine = "piper" /\ calls = <<>> /\ response.error = "Exception"
       \/ engine = "google" /\ calls = <<>>

\* C12 as stated: when the selected engine cannot be constructed the
\* request is answered with a 5xx status, never a 4xx, and no output file
\* is written.
C12_UnavailableIs5xx ==
    EngineUnavailable =>
        /\ response.status >= 500 /\ response.status <= 599
        /\ response.file = 0
        /\ \A f \in OwnFiles : f.role # "final"

\* the engine call itself failed: quota exhausted, permission denied or
\* another API error of the remote engine, or an exception of synthesize
EngineCallFailed ==
    /\ pc = "done"
    /\ calls # <<>>
    /\ calls[Len(calls)].result = "raised"
    /\ response.error \in {"PermissionError", "RuntimeError", "Exception"}

\* C13 as stated: every failure of the engine call itself is answered with
\* a 5xx status and no output file is written.
C13_UpstreamFailureIs5xx ==
    EngineCallFailed =>
        /\ response.status >= 500 /\ response.status <= 599
        /\ response.file = 0
        /\ \A f \in OwnFiles : f.role # "final"

C15_VanishedEntryTolerated ==
    /\ sweep.pc # "raised"
    /\ (sweep.pc = "idle" /\ sweep.ran) =>
          \A f \in cache :
              sweep.current_time - f.mtime > one_day_in_seconds
                  => f \in sweep.failed

\* two runs in succession are over and no one else touched the directory
\* from the start of the first to the end of the second
TwoQuietRuns == sweep.pc = "idle" /\ sweep.prev.valid

\* C16 as stated: of two runs in succession with no file written in
\* between, the second removes nothing and leaves the directory as the
\* first left it.
C16_SecondRunRemovesNothing ==
    TwoQuietRuns =>
        /\ sweep.removed = {}
        /\ cache = sweep.prev.dir

\* the files left by the first run that the second has to remove: their
\* age passed 24 hours between the two time readings, or their removal
\* failed in the first run
Due ==
    {f \in sweep.prev.dir :
        \/ f \in sweep.prev.failed
        \/ /\ sweep.prev.current_time - f.mtime <= one_day_in_seconds
           /\ sweep.current_time - f.mtime > one_day_in_seconds}

\* C16, amended: of two runs in succession with nothing written or removed
\* by anyone else, the second removes, or fails to remove, exactly the
\* files whose age passed 24 hours between the two time readings or whose
\* removal failed in the first run; when there is none the second run
\* removes nothing and leaves the directory as the first left it.
C16_SecondRunRemovesOnlyDue ==
    TwoQuietRuns =>
        /\ sweep.removed \cup sweep.failed = Due
        /\ sweep.removed \cap sweep.failed = {}
        /\ cache = sweep.prev.dir \ sweep.removed

\* the first run removed a file and kept a younger one; the second run
\* removed nothing
C16_Witness ==
    /\ TwoQuietRuns
    /\ sweep.prev.removed # {}
    /\ sweep.removed = {}
    /\ cache # {}
    /\ cache = sweep.prev.dir

====
